---- MODULE Spec2Model ----
(* Model of the entropy back end of libjxl-tiny: Histogram and               *)
(* HistogramBuilder (encoder/histogram.h), the entropy writer interface      *)
(* (encoder/enc_ans.h), the offline prefix-code extender, the token coder,   *)
(* the adaptive table builder, Mirror (encoder/image_ops.h) and AcStrategy,  *)
(* AcStrategyRow and AcStrategyImage (encoder/ac_strategy.h).                *)
(* C++ vectors are 0-based; a vector v is a sequence whose element i is      *)
(* v[i + 1].                                                                 *)
EXTENDS Integers, Sequences, FiniteSets, TLC

VARIABLES
    hist,                \* a pool of Histogram objects: [data_, total_count_]
    histograms,          \* HistogramBuilder::histograms
    static_context_map,  \* HistogramBuilder::static_context_map
    status,              \* of the builder's process: "ok", "aborted", "segfault"
    accepted,            \* tokens HistogramBuilder::Add has counted so far
    prefix_code,         \* a DynamicPrefixCode: [depths, bits]
    static_codes,        \* kDCPrefixCodes and kACPrefixCodes, by PrefixCodeType
    exit_status,         \* of the tool: "running" until main ends
    stdout,              \* the codes the tool has printed
    unit,                \* one encoding unit: its tokens, context map, mode
    codes,               \* EntropyEncodingData filled by WriteHistograms
    stream,              \* what the BitWriter holds, in order of emission
    wstate,              \* "open", "histograms" written, "tokens" written
    coder,               \* one UintCoder round: the value, its code, the decoded value
    quant,               \* one run of the adaptive table builder
    mirror,              \* one call of Mirror: its arguments and the loop's x
    fold,                \* the combiner: which partial histograms it has merged
    image,               \* an AcStrategyImage: xsize, ysize, stride_, row_
    acs,                 \* the AcStrategy object last made or read
    last                 \* the last operation that ran, with its arguments

histVars == <<hist>>
builderVars == <<histograms, static_context_map, status, accepted>>
codeVars == <<prefix_code>>
toolVars == <<static_codes, exit_status, stdout>>
writerVars == <<unit, codes, stream, wstate>>
coderVars == <<coder>>
quantVars == <<quant>>
mirrorVars == <<mirror>>
foldVars == <<fold>>
imageVars == <<image, acs>>
restVars == <<coderVars, quantVars, mirrorVars, foldVars, imageVars>>
vars == <<hist, histograms, static_context_map, status, accepted,
          prefix_code, static_codes, exit_status, stdout,
          unit, codes, stream, wstate,
          coder, quant, mirror, fold, image, acs, last>>

---------------------------------------------------------------------------
(* Bounds of the model.                                                    *)
Hists == {"a", "b"}
MaxSymbol == 16          \* the largest symbol passed to Histogram::Add
MaxTotal == 2            \* cap on total_count_ of one histogram
MaxStaticLen == 2        \* len of the arrays given to InitStatic
MaxStaticCount == 1      \* entries of the arrays given to InitStatic
MaxMapLen == 2           \* length of a static context map
MaxContext == 3          \* token.context is 0..MaxContext
MaxValue == 40           \* the largest token.value
MaxAlpha == 3            \* symbols of a frequency table or of a code given
MaxFreq == 2             \* the largest count of a frequency table
MaxExtra == 2            \* symbols ExtendPrefixCode adds in one call
MaxDeep == 1             \* how far the skewed tables go past the depth limit
MaxCodes == 2            \* codes of one static family
MaxArg == 2              \* the size argument goes from -MaxArg up
MaxTokens == 2           \* tokens given to one HistogramBuilder

---------------------------------------------------------------------------
(* Helpers on vectors.                                                     *)
RECURSIVE SumSeq(_)
SumSeq(s) == IF s = <<>> THEN 0 ELSE Head(s) + SumSeq(Tail(s))

Max(a, b) == IF a >= b THEN a ELSE b

\* std::vector::resize(n): truncates, or appends value-initialised (0) slots.
Resize(v, n) == [i \in 1..n |-> IF i <= Len(v) THEN v[i] ELSE 0]

\* DivCeil(a, b) of encoder/common.h
DivCeil(a, b) == (a + b - 1) \div b

---------------------------------------------------------------------------
(* struct Histogram                                                        *)
kRounding == 8

\* Histogram() : data_ empty, total_count_ = 0
NewHistogram == [data_ |-> <<>>, total_count_ |-> 0]

\* void Clear()
HistClear(h) == [data_ |-> <<>>, total_count_ |-> 0]

\* HistAdd growing to symbol + 1 instead of a multiple of kRounding.
HistAdd_NoRounding(h, symbol) ==
    LET grown == IF Len(h.data_) <= symbol
                 THEN Resize(h.data_, symbol + 1)
                 ELSE h.data_
    IN [data_ |-> [grown EXCEPT ![symbol + 1] = @ + 1],
        total_count_ |-> h.total_count_ + 1]

\* void Add(size_t symbol)
HistAdd(h, symbol) ==
    LET grown == IF Len(h.data_) <= symbol
                 THEN Resize(h.data_, DivCeil(symbol + 1, kRounding) * kRounding)
                 ELSE h.data_
    IN [data_ |-> [grown EXCEPT ![symbol + 1] = @ + 1],
        total_count_ |-> h.total_count_ + 1]

\* HistAddHistogram forgetting to add the other total.
HistAddHistogram_NoTotal(h, other) ==
    LET grown == IF Len(other.data_) > Len(h.data_)
                 THEN Resize(h.data_, Len(other.data_))
                 ELSE h.data_
    IN [data_ |-> [i \in 1..Len(grown) |->
                      IF i <= Len(other.data_) THEN grown[i] + other.data_[i]
                      ELSE grown[i]],
        total_count_ |-> h.total_count_]

\* HistAddHistogram adding only over the slots it already had (no resize).
HistAddHistogram_NoResize(h, other) ==
    [data_ |-> [i \in 1..Len(h.data_) |->
                   IF i <= Len(other.data_) THEN h.data_[i] + other.data_[i]
                   ELSE h.data_[i]],
     total_count_ |-> h.total_count_ + other.total_count_]

\* void AddHistogram(const Histogram& other)
HistAddHistogram(h, other) ==
    LET grown == IF Len(other.data_) > Len(h.data_)
                 THEN Resize(h.data_, Len(other.data_))
                 ELSE h.data_
    IN [data_ |-> [i \in 1..Len(grown) |->
                      IF i <= Len(other.data_) THEN grown[i] + other.data_[i]
                      ELSE grown[i]],
        total_count_ |-> h.total_count_ + other.total_count_]

\* void InitStatic(const int32_t* data, size_t len); data holds len counts
HistInitStatic(h, data) ==
    [data_ |-> [i \in 1..Len(data) |-> data[i]],
     total_count_ |-> SumSeq(data)]

---------------------------------------------------------------------------
(* Operations on the pool of histograms.                                   *)
\* Symbols given to Add: the first slot, both sides of the first kRounding
\* boundary, and a symbol further out.
Symbols == {0, kRounding - 1, kRounding, MaxSymbol}

NoOp == [op |-> "none", a |-> 0, b |-> 0, arg |-> <<>>]

StaticArrays ==
    UNION {[1..n -> 0..MaxStaticCount] : n \in 0..MaxStaticLen}

Add(a, symbol) ==
    /\ hist[a].total_count_ < MaxTotal
    /\ hist' = [hist EXCEPT ![a] = HistAdd(hist[a], symbol)]
    /\ last' = [op |-> "Add", a |-> a, b |-> 0, arg |-> <<symbol>>]
    /\ UNCHANGED <<builderVars, codeVars, toolVars, writerVars, restVars>>

AddHistogram(a, b) ==
    /\ hist[a].total_count_ + hist[b].total_count_ <= MaxTotal
    /\ hist' = [hist EXCEPT ![a] = HistAddHistogram(hist[a], hist[b])]
    /\ last' = [op |-> "AddHistogram", a |-> a, b |-> b, arg |-> <<>>]
    /\ UNCHANGED <<builderVars, codeVars, toolVars, writerVars, restVars>>

Clear(a) ==
    /\ hist' = [hist EXCEPT ![a] = HistClear(hist[a])]
    /\ last' = [op |-> "Clear", a |-> a, b |-> 0, arg |-> <<>>]
    /\ UNCHANGED <<builderVars, codeVars, toolVars, writerVars, restVars>>

InitStatic(a, data) ==
    /\ hist' = [hist EXCEPT ![a] = HistInitStatic(hist[a], data)]
    /\ last' = [op |-> "InitStatic", a |-> a, b |-> 0, arg |-> data]
    /\ UNCHANGED <<builderVars, codeVars, toolVars, writerVars, restVars>>

\* The state of the parts a specification does not exercise.
IdleHist == hist = [a \in Hists |-> NewHistogram]
IdleBuilder ==
    /\ histograms = <<>>
    /\ static_context_map = [present |-> FALSE, map |-> <<>>]
    /\ status = "ok"
    /\ accepted = 0

IdleCode == prefix_code = [depths |-> <<>>, bits |-> <<>>]
IdleTool ==
    /\ static_codes = <<>>
    /\ exit_status = "running"
    /\ stdout = <<>>
NoCodes == [encoding_info |-> <<>>, use_prefix_code |-> FALSE]
IdleWriter ==
    /\ unit = [tokens |-> <<>>, context_map |-> [present |-> FALSE, map |-> <<>>],
               num_histograms |-> 0, use_prefix_code |-> FALSE]
    /\ codes = NoCodes
    /\ stream = <<>>
    /\ wstate = "open"
IdleCoder == coder = [value |-> 0, pc |-> "idle"]
IdleQuant == quant = [pc |-> "idle"]
IdleMirror == mirror = [pc |-> "idle"]
IdleFold == fold = [pc |-> "idle"]
IdleImage ==
    /\ image = [xsize |-> 0, ysize |-> 0, stride_ |-> 0, row_ |-> <<>>]
    /\ acs = [pc |-> "idle"]
IdleRest == IdleCoder /\ IdleQuant /\ IdleMirror /\ IdleFold /\ IdleImage

InitHist ==
    /\ hist = [a \in Hists |-> NewHistogram]
    /\ last = NoOp
    /\ IdleBuilder
    /\ IdleCode
    /\ IdleTool
    /\ IdleWriter
    /\ IdleRest

NextHist ==
    \/ \E a \in Hists, symbol \in Symbols : Add(a, symbol)
    \/ \E a \in Hists : \E b \in Hists \ {a} : AddHistogram(a, b)
    \/ \E a \in Hists : Clear(a)
    \/ \E a \in Hists, data \in StaticArrays : InitStatic(a, data)

SpecHist == InitHist /\ [][NextHist]_vars

---------------------------------------------------------------------------
(* Properties of Histogram, checked under SpecHist.                        *)

\* The count of slot i (0-based) of a vector, 0 where it has no such slot.
CountAt(data, i) == IF i < Len(data) THEN data[i + 1] ELSE 0

\* The smallest multiple of kRounding that is greater than n.
NextMultiple(n) ==
    CHOOSE m \in 1..(n + kRounding) :
        /\ m % kRounding = 0
        /\ m > n
        /\ \A k \in 1..(m - 1) : ~(k % kRounding = 0 /\ k > n)

\* C1: whatever Add, AddHistogram, Clear and InitStatic calls a histogram
\* that started empty has seen, its total_count_ is the sum of its data_.
C1_TotalIsSum ==
    \A a \in Hists : hist[a].total_count_ = SumSeq(hist[a].data_)

C1_Witness ==
    /\ last.op = "AddHistogram"
    /\ hist[last.a].total_count_ = 2
    /\ hist[last.b].total_count_ = 1
    /\ Len(hist[last.a].data_) > 0

\* C5: Add(bucket) adds one to data_[bucket] and to total_count_ and leaves
\* every other count alone; a bucket beyond the length grows the array to
\* the smallest multiple of kRounding above the bucket, new slots zero,
\* otherwise the length stays; Add and AddHistogram never shrink data_.
C5_AddEffect ==
    [][/\ last'.op = "Add" =>
            LET old == hist[last'.a]
                new == hist'[last'.a]
                bucket == last'.arg[1]
            IN /\ new.total_count_ = old.total_count_ + 1
               /\ Len(new.data_) = IF Len(old.data_) <= bucket
                                   THEN NextMultiple(bucket)
                                   ELSE Len(old.data_)
               /\ \A i \in 0..(Len(new.data_) - 1) :
                     new.data_[i + 1] =
                        CountAt(old.data_, i) + (IF i = bucket THEN 1 ELSE 0)
               /\ \A b \in Hists \ {last'.a} : hist'[b] = hist[b]
       /\ last'.op \in {"Add", "AddHistogram"} =>
            Len(hist'[last'.a].data_) >= Len(hist[last'.a].data_)
      ]_vars

C5_Witness ==
    /\ last.op = "Add"
    /\ last.arg = <<kRounding>>
    /\ Len(hist[last.a].data_) = 2 * kRounding
    /\ hist[last.a].data_[kRounding + 1] = 2

\* C6: a.AddHistogram(b) makes a as long as the longer of the two, each
\* count of a the old count of a plus the count of b (0 where a slot is
\* missing), a's total the sum of both totals, and leaves b as it was.
C6_MergeEffect ==
    [][last'.op = "AddHistogram" =>
         LET old == hist[last'.a]
             new == hist'[last'.a]
             other == hist[last'.b]
         IN /\ Len(new.data_) = Max(Len(old.data_), Len(other.data_))
            /\ \A i \in 0..(Len(new.data_) - 1) :
                  new.data_[i + 1] = CountAt(old.data_, i) + CountAt(other.data_, i)
            /\ new.total_count_ = old.total_count_ + other.total_count_
            /\ hist'[last'.b] = other
      ]_vars

C6_Witness ==
    /\ last.op = "AddHistogram"
    /\ Len(hist[last.a].data_) = 2 * kRounding
    /\ Len(hist[last.b].data_) = 2 * kRounding
    /\ hist[last.a].data_[1] = 1
    /\ hist[last.b].data_[1] = 0
    /\ hist[last.a].data_[kRounding + 1] = 1
    /\ hist[last.b].data_[kRounding + 1] = 1

---------------------------------------------------------------------------
(* Token Model: UintCoder of encoder/token.h. Values below the split map   *)
(* to themselves with no extra bits; larger values map to an exponential   *)
(* class (the exponent and the top bits below the leading one) and the     *)
(* remaining low bits go out raw.                                          *)
kSplitExponent == 4
kMsbInToken == 2
kSplit == 2 ^ kSplitExponent

FloorLog2Nonzero(v) == CHOOSE n \in 0..30 : v \div 2 ^ n = 1

\* As UintCoderEncode, with the mask of the raw bits one bit short.
UintCoderEncode_ShortMask(value) ==
    IF value < kSplit
    THEN [tok |-> value, nbits |-> 0, bits |-> 0]
    ELSE LET n == FloorLog2Nonzero(value)
             m == value - 2 ^ n
         IN [tok |-> kSplit + (n - kSplitExponent) * 2 ^ kMsbInToken
                            + (m \div 2 ^ (n - kMsbInToken)),
             nbits |-> n - kMsbInToken,
             bits |-> value % 2 ^ (n - kMsbInToken - 1)]

UintCoderEncode(value) ==
    IF value < kSplit
    THEN [tok |-> value, nbits |-> 0, bits |-> 0]
    ELSE LET n == FloorLog2Nonzero(value)
             m == value - 2 ^ n
         IN [tok |-> kSplit + (n - kSplitExponent) * 2 ^ kMsbInToken
                            + (m \div 2 ^ (n - kMsbInToken)),
             nbits |-> n - kMsbInToken,
             bits |-> value % 2 ^ (n - kMsbInToken)]

---------------------------------------------------------------------------
(* struct HistogramBuilder                                                 *)
kUint8Values == 256

\* What reading static_context_map[context] can give. Inside the map it is
\* the entry; the map is a bare pointer, so a context past its end is an
\* out-of-bounds read that yields any uint8_t (or faults, see
\* BuilderAddSegfault). Every uint8_t that is not below n, the number of
\* histograms, fails the same JXL_CHECK: the largest stands for them all.
ReadContextMap(map, context, n) ==
    IF context < Len(map) THEN {map[context + 1]}
    ELSE {v \in 0..(kUint8Values - 1) : v < n \/ v = kUint8Values - 1}

\* Add(int, size_t) with the JXL_CHECK dropped: an out-of-range context is
\* silently counted in the last histogram.
BuilderAddSymbol_Clamp(hs, symbol, context) ==
    LET c == IF context < Len(hs) THEN context ELSE Len(hs) - 1
    IN [ok |-> TRUE, histograms |-> [hs EXCEPT ![c + 1] = HistAdd(@, symbol)]]

\* Add(int, size_t) counting the symbol in every histogram up to context.
BuilderAddSymbol_Spill(hs, symbol, context) ==
    IF context < Len(hs)
    THEN [ok |-> TRUE,
          histograms |-> [i \in 1..Len(hs) |->
                             IF i <= context + 1 THEN HistAdd(hs[i], symbol)
                             ELSE hs[i]]]
    ELSE [ok |-> FALSE, histograms |-> hs]

\* void Add(int symbol, size_t context): JXL_CHECK aborts when the context
\* is not below histograms.size(); ok is FALSE then.
BuilderAddSymbol(hs, symbol, context) ==
    IF context < Len(hs)
    THEN [ok |-> TRUE, histograms |-> [hs EXCEPT ![context + 1] = HistAdd(@, symbol)]]
    ELSE [ok |-> FALSE, histograms |-> hs]

\* The contexts Add(const Token&) can hand to Add(int, size_t).
BuilderContexts(scm, token, n) ==
    IF scm.present THEN ReadContextMap(scm.map, token.context, n)
    ELSE {token.context}

TokenValues == {0, kSplit - 1, kSplit, MaxValue}
Tokens == [value : TokenValues, context : 0..MaxContext]

\* void Add(const Token& token), the read of the map succeeding
BuilderAdd(token) ==
    /\ status = "ok"
    /\ accepted < MaxTokens
    /\ \E context \in BuilderContexts(static_context_map, token, Len(histograms)) :
          LET r == BuilderAddSymbol(histograms,
                                    UintCoderEncode(token.value).tok, context)
          IN /\ histograms' = r.histograms
             /\ status' = IF r.ok THEN "ok" ELSE "aborted"
             /\ accepted' = IF r.ok THEN accepted + 1 ELSE accepted
             /\ last' = [op |-> "BuilderAdd", a |-> token.context, b |-> 0,
                         arg |-> <<token.value>>]
    /\ UNCHANGED <<static_context_map, histVars, codeVars, toolVars,
                   writerVars, restVars>>

\* void Add(const Token& token), the out-of-bounds read of the map faulting
BuilderAddSegfault(token) ==
    /\ status = "ok"
    /\ accepted < MaxTokens
    /\ static_context_map.present
    /\ token.context >= Len(static_context_map.map)
    /\ status' = "segfault"
    /\ last' = [op |-> "BuilderAdd", a |-> token.context, b |-> 0,
                arg |-> <<token.value>>]
    /\ UNCHANGED <<histograms, accepted, static_context_map, histVars,
                   codeVars, toolVars, writerVars, restVars>>

\* HistogramBuilder(context_map, num_contexts): num_contexts empty
\* histograms; the map is absent (nullptr) or an array of uint8_t.
ContextMaps(n) ==
    {[present |-> FALSE, map |-> <<>>]} \cup
    {[present |-> TRUE, map |-> m] :
        m \in UNION {[1..len -> 0..n] : len \in 1..MaxMapLen}}

\* The num_contexts a builder is constructed with.
ContextCounts == {1, 2}

InitBuilder ==
    /\ \E n \in ContextCounts :
          /\ histograms = [i \in 1..n |-> NewHistogram]
          /\ static_context_map \in ContextMaps(n)
    /\ status = "ok"
    /\ accepted = 0
    /\ last = NoOp
    /\ IdleHist
    /\ IdleCode
    /\ IdleTool
    /\ IdleWriter
    /\ IdleRest

NextBuilder ==
    \/ \E token \in Tokens : BuilderAdd(token)
    \/ \E token \in Tokens : BuilderAddSegfault(token)

SpecBuilder == InitBuilder /\ [][NextBuilder]_vars

---------------------------------------------------------------------------
(* Properties of HistogramBuilder, checked under SpecBuilder.              *)

\* The token of the last HistogramBuilder::Add.
LastContext == last.a
LastBucket == UintCoderEncode(last.arg[1]).tok

\* C4: HistogramBuilder::Add fails fatally for every token whose context is
\* not in [0, num_contexts), with or without a static context map, leaving
\* every histogram as it was. Stated on the tokens that are out of range
\* whichever count num_contexts names: past the histograms and, when there
\* is a map, past the map as well.
C4_OutOfRangeAborts ==
    [][(/\ last'.op = "BuilderAdd"
        /\ LastContext' >= Len(histograms)
        /\ static_context_map.present =>
               LastContext' >= Len(static_context_map.map))
          => /\ status' = "aborted"
             /\ histograms' = histograms
      ]_vars

\* C7: an Add(token) that returns changes exactly one histogram, the one
\* indexed by static_context_map[token.context] when there is a map and by
\* token.context when there is none; that histogram gets one Add of the
\* token's bucket and every other histogram stays as it was.
C7_AddRoutesToOne ==
    [][(last'.op = "BuilderAdd" /\ status' = "ok") =>
         \E i \in 1..Len(histograms) :
            /\ histograms'[i] = HistAdd(histograms[i], LastBucket')
            /\ histograms'[i] # histograms[i]
            /\ \A j \in 1..Len(histograms) \ {i} : histograms'[j] = histograms[j]
            /\ Len(histograms') = Len(histograms)
            /\ ~static_context_map.present => i = LastContext' + 1
            /\ (/\ static_context_map.present
                /\ LastContext' < Len(static_context_map.map))
                  => i = static_context_map.map[LastContext' + 1] + 1
      ]_vars

\* A token of context 1 counted, through the map, in histogram 0 only.
C7_Witness ==
    /\ last.op = "BuilderAdd"
    /\ status = "ok"
    /\ static_context_map.present
    /\ Len(histograms) = 2
    /\ Len(static_context_map.map) = 2
    /\ LastContext = 1
    /\ static_context_map.map[2] = 0
    /\ last.arg = <<kSplit>>
    /\ histograms[1].total_count_ = 1
    /\ histograms[1].data_[kSplit + 1] = 1
    /\ histograms[2].total_count_ = 0

---------------------------------------------------------------------------
(* Canonical Code Builder: CreateHuffmanTree and ConvertBitDepthsToSymbols *)
(* of encoder/enc_huffman_tree.h, after section 4.3 of the specification.  *)
kTreeLimit == 15

Min(a, b) == IF a <= b THEN a ELSE b

\* The symbols (0-based) of a frequency table that have a nonzero count.
Live(counts) == {i \in 0..(Len(counts) - 1) : counts[i + 1] > 0}

\* The lowest-weight node; among equal weights the one holding the lowest
\* original symbol index.
Lowest(nodes) ==
    CHOOSE a \in nodes :
        \A b \in nodes : a.w < b.w \/ (a.w = b.w /\ a.key <= b.key)

\* Step 2: merge the two lowest-weight nodes until one is left; depth[s]
\* counts the merges symbol s took part in.
RECURSIVE HuffmanDepths(_, _)
HuffmanDepths(nodes, depth) ==
    IF Cardinality(nodes) <= 1 THEN depth
    ELSE LET a == Lowest(nodes)
             b == Lowest(nodes \ {a})
             merged == [w |-> a.w + b.w, key |-> Min(a.key, b.key),
                        leaves |-> a.leaves \cup b.leaves]
         IN HuffmanDepths((nodes \ {a, b}) \cup {merged},
                [s \in DOMAIN depth |->
                    IF s \in merged.leaves THEN depth[s] + 1 ELSE depth[s]])

\* Step 3 on the number of leaves per depth: while the Kraft sum exceeds
\* 2^limit, take one leaf off the limit depth and one off the deepest
\* shallower depth i, and put two at depth i + 1.
RECURSIVE LimitLengthCounts(_, _, _)
LimitLengthCounts(num, excess, limit) ==
    IF excess <= 0 THEN num
    ELSE LET i == CHOOSE d \in 1..(limit - 1) :
                     /\ num[d] > 0
                     /\ \A e \in (d + 1)..(limit - 1) : num[e] = 0
         IN LimitLengthCounts(
                [[[num EXCEPT ![limit] = @ - 1] EXCEPT ![i] = @ - 1]
                     EXCEPT ![i + 1] = @ + 2],
                excess - 1, limit)

\* Step 3: depths over the limit are cut to it and the excess is
\* redistributed; the lengths go to the symbols by falling count, equal
\* counts by rising symbol index.
LimitDepths(counts, depth, limit) ==
    LET live == Live(counts)
    IN IF \A s \in live : depth[s] <= limit THEN depth
       ELSE LET num0 == [d \in 1..limit |->
                           Cardinality({s \in live : Min(depth[s], limit) = d})]
                RECURSIVE Kraft(_)
                Kraft(d) == IF d = 0 THEN 0
                            ELSE num0[d] * 2 ^ (limit - d) + Kraft(d - 1)
                num == LimitLengthCounts(num0, Kraft(limit) - 2 ^ limit, limit)
                RECURSIVE UpTo(_)
                UpTo(d) == IF d = 0 THEN 0 ELSE num[d] + UpTo(d - 1)
                rank(s) == 1 + Cardinality({t \in live :
                               \/ counts[t + 1] > counts[s + 1]
                               \/ (counts[t + 1] = counts[s + 1] /\ t < s)})
            IN [s \in DOMAIN depth |->
                   IF s \in live
                   THEN CHOOSE d \in 1..limit :
                           UpTo(d) >= rank(s) /\ UpTo(d - 1) < rank(s)
                   ELSE 0]

\* CreateHuffmanTree without the rule for one live symbol: the lone leaf
\* is the root of its tree, at depth 0.
CreateHuffmanTree_NoSingle(counts, length, tree_limit) ==
    LET live == Live(counts)
        zero == [s \in 0..(length - 1) |-> 0]
        depth ==
            IF live = {} THEN zero
            ELSE LimitDepths(counts,
                    HuffmanDepths({[w |-> counts[s + 1], key |-> s,
                                    leaves |-> {s}] : s \in live}, zero),
                    tree_limit)
    IN [i \in 1..length |-> depth[i - 1]]

\* void CreateHuffmanTree(const uint32_t* data, size_t length,
\*                        int tree_limit, uint8_t* depth)
\* Step 1: a symbol with count zero has depth 0; one live symbol alone gets
\* depth 1.
CreateHuffmanTree(counts, length, tree_limit) ==
    LET live == Live(counts)
        zero == [s \in 0..(length - 1) |-> 0]
        depth ==
            IF live = {} THEN zero
            ELSE IF Cardinality(live) = 1
                 THEN [s \in 0..(length - 1) |-> IF s \in live THEN 1 ELSE 0]
                 ELSE LimitDepths(counts,
                         HuffmanDepths({[w |-> counts[s + 1], key |-> s,
                                         leaves |-> {s}] : s \in live}, zero),
                         tree_limit)
    IN [i \in 1..length |-> depth[i - 1]]

\* void ConvertBitDepthsToSymbols(const uint8_t* depth, size_t len,
\*                                uint16_t* bits)
\* Step 4: the first code of a depth is the next code of the depth before
\* it, shifted left by one; the symbols of a depth take consecutive codes
\* in symbol order.
ConvertBitDepthsToSymbols(depths) ==
    LET blCount(d) == Cardinality({i \in 1..Len(depths) : depths[i] = d})
        RECURSIVE nextCode(_)
        nextCode(d) == IF d <= 1 THEN 0
                       ELSE (nextCode(d - 1) + blCount(d - 1)) * 2
    IN [i \in 1..Len(depths) |->
           IF depths[i] = 0 THEN 0
           ELSE nextCode(depths[i])
                + Cardinality({j \in 1..(i - 1) : depths[j] = depths[i]})]

---------------------------------------------------------------------------
(* ExtendPrefixCode of the offline tool. The uint32_t sums of the model    *)
(* stay far below 2^32.                                                    *)

\* ExtendPrefixCode keeping the old depths and putting every new symbol at
\* the limit depth instead of rebuilding the tree.
ExtendPrefixCode_KeepOld(code, new_alphabet_size) ==
    LET alphabet_size == Len(code.depths)
        depths == [i \in 1..new_alphabet_size |->
                      IF i <= alphabet_size THEN code.depths[i] ELSE kTreeLimit]
    IN IF Len(code.bits) # alphabet_size
          \/ SumSeq([i \in 1..alphabet_size |->
                        2 ^ (kTreeLimit - code.depths[i])]) # 2 ^ kTreeLimit
       THEN [ret |-> FALSE, code |-> code]
       ELSE [ret |-> TRUE,
             code |-> [depths |-> depths,
                       bits |-> ConvertBitDepthsToSymbols(depths)]]

\* ExtendPrefixCode without step 2: the new symbols keep the count 0 the
\* vector was created with.
ExtendPrefixCode_NoNewCounts(code, new_alphabet_size) ==
    LET alphabet_size == Len(code.depths)
        old_counts == [i \in 1..alphabet_size |->
                          2 ^ (kTreeLimit - code.depths[i])]
        counts == [i \in 1..new_alphabet_size |->
                      IF i <= alphabet_size THEN old_counts[i] ELSE 0]
        depths == CreateHuffmanTree(counts, new_alphabet_size, kTreeLimit)
    IN IF Len(code.bits) # alphabet_size \/ SumSeq(old_counts) # 2 ^ kTreeLimit
       THEN [ret |-> FALSE, code |-> code]
       ELSE [ret |-> TRUE,
             code |-> [depths |-> depths,
                       bits |-> ConvertBitDepthsToSymbols(depths)]]

\* ExtendPrefixCode with the resize of step 3 done on entry.
ExtendPrefixCode_ResizeFirst(code, new_alphabet_size) ==
    LET alphabet_size == Len(code.depths)
        old_counts == [i \in 1..alphabet_size |->
                          2 ^ (kTreeLimit - code.depths[i])]
        counts == [i \in 1..new_alphabet_size |->
                      IF i <= alphabet_size THEN old_counts[i] ELSE 1]
        depths == CreateHuffmanTree(counts, new_alphabet_size, kTreeLimit)
        resized == [depths |-> Resize(code.depths, new_alphabet_size),
                    bits |-> Resize(code.bits, new_alphabet_size)]
    IN IF Len(code.bits) # alphabet_size \/ SumSeq(old_counts) # 2 ^ kTreeLimit
       THEN [ret |-> FALSE, code |-> resized]
       ELSE [ret |-> TRUE,
             code |-> [depths |-> depths,
                       bits |-> ConvertBitDepthsToSymbols(depths)]]

\* bool ExtendPrefixCode(DynamicPrefixCode& prefix_code,
\*                       size_t new_alphabet_size)
ExtendPrefixCode(code, new_alphabet_size) ==
    LET alphabet_size == Len(code.depths)
        old_counts == [i \in 1..alphabet_size |->
                          2 ^ (kTreeLimit - code.depths[i])]
        total_count == SumSeq(old_counts)
        counts == [i \in 1..new_alphabet_size |->
                      IF i <= alphabet_size THEN old_counts[i] ELSE 1]
        depths == CreateHuffmanTree(counts, new_alphabet_size, kTreeLimit)
    IN IF Len(code.bits) # alphabet_size
       THEN [ret |-> FALSE, code |-> code]
       ELSE IF total_count # 2 ^ kTreeLimit
            THEN [ret |-> FALSE, code |-> code]
            ELSE [ret |-> TRUE,
                  code |-> [depths |-> depths,
                            bits |-> ConvertBitDepthsToSymbols(depths)]]

\* The frequency tables given to the builder: every table of up to
\* MaxAlpha counts, and Fibonacci tables long enough for the unlimited
\* tree to be deeper than kTreeLimit.
RECURSIVE Fib(_)
Fib(n) == IF n <= 2 THEN 1 ELSE Fib(n - 1) + Fib(n - 2)

FrequencyTables ==
    UNION {[1..n -> 0..MaxFreq] : n \in 1..MaxAlpha}
    \cup {[i \in 1..(kTreeLimit + 1 + n) |-> Fib(i)] : n \in 1..MaxDeep}

\* The code of depths 1, 2, ..., kTreeLimit, kTreeLimit.
SkewedDepths == [i \in 1..(kTreeLimit + 1) |-> Min(i, kTreeLimit)]

\* A default-constructed DynamicPrefixCode.
EmptyCode == [depths |-> <<>>, bits |-> <<>>]

\* The codes ExtendPrefixCode is given: the empty code, depths of up to
\* MaxAlpha symbols (complete or not) and the skewed code, with their
\* canonical bits, or with a bits array one entry short.
GivenCodes ==
    LET ds == UNION {[1..n -> 0..MaxAlpha] : n \in 1..MaxAlpha}
              \cup {SkewedDepths}
    IN {[depths |-> d, bits |-> ConvertBitDepthsToSymbols(d)] : d \in ds}
       \cup {[depths |-> d,
              bits |-> SubSeq(ConvertBitDepthsToSymbols(d), 1, Len(d) - 1)] :
                 d \in ds}
       \cup {EmptyCode}

\* The builder run on a frequency table, filling an empty code.
Build(counts) ==
    /\ prefix_code = EmptyCode
    /\ last = NoOp
    /\ LET depths == CreateHuffmanTree(counts, Len(counts), kTreeLimit)
       IN prefix_code' = [depths |-> depths,
                          bits |-> ConvertBitDepthsToSymbols(depths)]
    /\ last' = [op |-> "Build", a |-> 0, b |-> 0, arg |-> counts]
    /\ UNCHANGED <<histVars, builderVars, toolVars, writerVars, restVars>>

\* ExtendPrefixCode(prefix_code, new_alphabet_size) for a larger alphabet,
\* as main guarantees; a code is extended once.
Extend(new_alphabet_size) ==
    /\ last.op # "ExtendPrefixCode"
    /\ new_alphabet_size > Len(prefix_code.depths)
    /\ LET r == ExtendPrefixCode(prefix_code, new_alphabet_size)
       IN /\ prefix_code' = r.code
          /\ last' = [op |-> "ExtendPrefixCode", a |-> Len(prefix_code.depths),
                      b |-> IF r.ret THEN 1 ELSE 0,
                      arg |-> <<new_alphabet_size>>]
    /\ UNCHANGED <<histVars, builderVars, toolVars, writerVars, restVars>>

InitCode ==
    /\ prefix_code \in GivenCodes
    /\ last = NoOp
    /\ IdleHist
    /\ IdleBuilder
    /\ IdleTool
    /\ IdleWriter
    /\ IdleRest

NextCode ==
    \/ \E counts \in FrequencyTables : Build(counts)
    \/ \E n \in 1..MaxExtra :
          Extend(Len(prefix_code.depths) + n)

SpecCode == InitCode /\ [][NextCode]_vars

---------------------------------------------------------------------------
(* Properties of the prefix codes, checked under SpecCode.                 *)

\* The weights 2^(kTreeLimit - depth) of the given symbols, summed.
RECURSIVE KraftSum(_, _)
KraftSum(depths, symbols) ==
    IF symbols = {} THEN 0
    ELSE LET s == CHOOSE x \in symbols : TRUE
         IN 2 ^ (kTreeLimit - depths[s + 1]) + KraftSum(depths, symbols \ {s})

\* The input code is complete: its weights sum to 2^kTreeLimit.
Complete(code) ==
    KraftSum(code.depths, 0..(Len(code.depths) - 1)) = 2 ^ kTreeLimit

\* s comes before t in the canonical order: by depth, then by symbol.
Before(depths, s, t) ==
    \/ depths[s + 1] < depths[t + 1]
    \/ (depths[s + 1] = depths[t + 1] /\ s < t)

\* The codewords of the coded symbols are the canonical enumeration: the
\* first is 0 and each next one is the one before plus one, shifted left
\* by the difference of their depths.
Canonical(code) ==
    LET coded == {s \in 0..(Len(code.depths) - 1) : code.depths[s + 1] > 0}
    IN \A t \in coded :
          IF \A s \in coded \ {t} : Before(code.depths, t, s)
          THEN code.bits[t + 1] = 0
          ELSE LET s == CHOOSE x \in coded \ {t} :
                           /\ Before(code.depths, x, t)
                           /\ \A y \in coded \ {t, x} :
                                 Before(code.depths, y, t)
                                    => Before(code.depths, y, x)
               IN code.bits[t + 1] =
                     (code.bits[s + 1] + 1)
                        * 2 ^ (code.depths[t + 1] - code.depths[s + 1])

\* The frequency table the code in prefix_code was built from: the table
\* given to Build, or the weight vector of a successful ExtendPrefixCode
\* (nothing but nonzero weights).
BuiltFrom ==
    IF last.op = "Build" THEN last.arg
    ELSE [i \in 1..Len(prefix_code.depths) |-> 1]

JustBuilt ==
    \/ last.op = "Build"
    \/ (last.op = "ExtendPrefixCode" /\ last.b = 1)

ValidCode ==
    /\ Len(prefix_code.bits) = Len(prefix_code.depths)
    /\ KraftSum(prefix_code.depths, Live(BuiltFrom)) = 2 ^ kTreeLimit
    /\ \A i \in 1..Len(prefix_code.depths) : prefix_code.depths[i] <= kTreeLimit
    /\ \A s \in Live(BuiltFrom) : prefix_code.depths[s + 1] >= 1
    /\ Canonical(prefix_code)

C9_CanonicalValid == (JustBuilt /\ Live(BuiltFrom) # {}) => ValidCode

\* C9, amended: the same for every frequency table with at least two
\* nonzero counts.
C9_CanonicalValidTwoLive ==
    (JustBuilt /\ Cardinality(Live(BuiltFrom)) >= 2) => ValidCode

\* A table whose unlimited tree is deeper than kTreeLimit.
C9_Witness ==
    /\ last.op = "Build"
    /\ Len(last.arg) > kTreeLimit + 1
    /\ prefix_code.depths[1] = kTreeLimit
    /\ prefix_code.depths[Len(last.arg)] = 1

\* C10: when exactly one symbol of the frequency table has a nonzero
\* count, whatever the count, the builder gives it depth 1, and every
\* symbol with count zero depth 0.
C10_SingleSymbolDepthOne ==
    (last.op = "Build" /\ Cardinality(Live(last.arg)) = 1) =>
        \A i \in 1..Len(last.arg) :
            prefix_code.depths[i] = IF last.arg[i] > 0 THEN 1 ELSE 0

C10_Witness ==
    /\ last.op = "Build"
    /\ last.arg = <<0, MaxFreq, 0>>
    /\ prefix_code.depths = <<0, 1, 0>>

---------------------------------------------------------------------------
(* The offline tool: main and GenerateNewPrefixCodes.                      *)

\* The alphabet size of the static codes (encoder/static_entropy_codes.h).
kAlphabetSize == 3

\* enum PrefixCodeType; Other is an argv[1] that names neither.
DC == 0
AC == 1
Other == 2

\* size_t new_alphabet_size = std::stoi(argv[2]): the int converted to
\* size_t. A negative int v becomes 2^64 + v, kept as wrapped + low.
SizeT(v) == [wrapped |-> v < 0, low |-> v]

\* new_alphabet_size <= n for a size_t n the model holds as an integer
SizeLeq(x, n) == ~x.wrapped /\ x.low <= n

\* std::vector<uint32_t> counts(new_alphabet_size) throws
\* std::length_error when the size is above max_size(), as every wrapped
\* value is; nothing catches it and the process is terminated.
VectorThrows(x) == x.wrapped

\* bool GenerateNewPrefixCodes(PrefixCodeType type, size_t
\* new_alphabet_size): "true" with the codes it printed, "false", or
\* "throw" when the first ExtendPrefixCode throws.
GenerateNewPrefixCodes(prefix_codes, new_alphabet_size) ==
    IF prefix_codes # <<>> /\ VectorThrows(new_alphabet_size)
    THEN [result |-> "throw", printed |-> <<>>]
    ELSE LET ext == [i \in 1..Len(prefix_codes) |->
                        ExtendPrefixCode(prefix_codes[i], new_alphabet_size.low)]
         IN IF \E i \in 1..Len(prefix_codes) : ~ext[i].ret
            THEN [result |-> "false", printed |-> <<>>]
            ELSE [result |-> "true",
                  printed |-> [i \in 1..Len(prefix_codes) |-> ext[i].code]]

\* int main(int argc, char** argv) with argc = 3: what it returns and
\* prints for argv[1] = type and argv[2] = the integer size.
MainResult(tables, type, size) ==
    IF type \notin {DC, AC}
    THEN [exit |-> "EXIT_FAILURE", printed |-> <<>>]
    ELSE LET new_alphabet_size == SizeT(size)
         IN IF SizeLeq(new_alphabet_size, kAlphabetSize)
            THEN [exit |-> "EXIT_FAILURE", printed |-> <<>>]
            ELSE LET g == GenerateNewPrefixCodes(tables[type + 1],
                                                 new_alphabet_size)
                 IN [exit |-> CASE g.result = "true" -> "EXIT_SUCCESS"
                                [] g.result = "false" -> "EXIT_FAILURE"
                                [] OTHER -> "terminate",
                     printed |-> g.printed]

Main(type, size) ==
    /\ exit_status = "running"
    /\ LET r == MainResult(static_codes, type, size)
       IN /\ exit_status' = r.exit
          /\ stdout' = r.printed
    /\ last' = [op |-> "main", a |-> type, b |-> 0, arg |-> <<size>>]
    /\ UNCHANGED <<static_codes, histVars, builderVars, codeVars, writerVars, restVars>>

\* The static codes: canonical codes over kAlphabetSize symbols, complete
\* ones and one that is not.
StaticDepths == {<<1, 2, 2>>, <<2, 2, 1>>, <<2, 2, 2>>}
StaticCodes ==
    {[depths |-> d, bits |-> ConvertBitDepthsToSymbols(d)] : d \in StaticDepths}
StaticFamilies == UNION {[1..n -> StaticCodes] : n \in 1..MaxCodes}

InitTool ==
    /\ static_codes \in [1..2 -> StaticFamilies]
    /\ exit_status = "running"
    /\ stdout = <<>>
    /\ last = NoOp
    /\ IdleHist
    /\ IdleBuilder
    /\ IdleCode
    /\ IdleWriter
    /\ IdleRest

NextTool ==
    \E type \in {DC, AC, Other},
       size \in (0 - MaxArg)..(kAlphabetSize + MaxExtra) : Main(type, size)

SpecTool == InitTool /\ [][NextTool]_vars

---------------------------------------------------------------------------
(* Properties of the tool, checked under SpecTool.                         *)

\* C3: for every integer size argument, negative and zero included, and
\* either family, the tool exits with a failure status and prints nothing
\* when the size is not larger than kAlphabetSize or when extending a code
\* of the family fails; it exits with success only after every code of the
\* family was extended and the whole table printed.
C3_ToolFailsCleanly ==
    (last.op = "main" /\ last.a \in {DC, AC}) =>
        LET family == static_codes[last.a + 1]
            size == last.arg[1]
            fails == \E i \in 1..Len(family) : ~Complete(family[i])
        IN /\ (size <= kAlphabetSize \/ fails) =>
                 (exit_status = "EXIT_FAILURE" /\ stdout = <<>>)
           /\ exit_status = "EXIT_SUCCESS" =>
                 /\ ~fails
                 /\ Len(stdout) = Len(family)
                 /\ \A i \in 1..Len(family) :
                       stdout[i] = ExtendPrefixCode(family[i], size).code

---------------------------------------------------------------------------
(* Entropy Writer: WriteHistograms and WriteTokens of encoder/enc_ans.h,   *)
(* after sections 4.5, 5 and 6 of the specification. The stream is the     *)
(* sequence of the pieces written: a histogram description, the entropy    *)
(* code of a token, the extra bits of a token.                             *)

\* The descriptions WriteHistograms emits, one per histogram, by rising
\* collapsed context.
HistogramItems(n) == [c \in 1..n |-> [kind |-> "histogram", context |-> c - 1]]

\* The collapsed context of a token.
CollapsedContext(context_map, token) ==
    IF context_map.present THEN context_map.map[token.context + 1]
    ELSE token.context

\* What WriteTokens emits for one token: its entropy code in the table of
\* its collapsed context, then its extra bits.
TokenItems(context_map, token) ==
    LET e == UintCoderEncode(token.value)
    IN << [kind |-> "code", context |-> CollapsedContext(context_map, token),
           symbol |-> e.tok],
          [kind |-> "extra", nbits |-> e.nbits, bits |-> e.bits] >>

\* AllTokenItems going through the tokens from the last to the first.
RECURSIVE AllTokenItems_Reversed(_, _)
AllTokenItems_Reversed(context_map, tokens) ==
    IF tokens = <<>> THEN <<>>
    ELSE AllTokenItems_Reversed(context_map, Tail(tokens))
            \o TokenItems(context_map, Head(tokens))

\* What WriteTokens emits: the items of each token, in input order.
RECURSIVE AllTokenItems(_, _)
AllTokenItems(context_map, tokens) ==
    IF tokens = <<>> THEN <<>>
    ELSE TokenItems(context_map, Head(tokens))
            \o AllTokenItems(context_map, Tail(tokens))

\* void WriteHistograms(histograms, codes, writer, use_prefix_code)
WriteHistograms ==
    /\ wstate = "open"
    /\ stream' = stream \o HistogramItems(unit.num_histograms)
    /\ codes' = [encoding_info |-> [c \in 1..unit.num_histograms |-> c - 1],
                 use_prefix_code |-> unit.use_prefix_code]
    /\ wstate' = "histograms"
    /\ last' = [op |-> "WriteHistograms", a |-> unit.num_histograms, b |-> 0,
                arg |-> <<>>]
    /\ UNCHANGED <<unit, histVars, builderVars, codeVars, toolVars, restVars>>

\* void WriteTokens(tokens, codes, context_map, num_contexts, writer): it
\* reads the codes WriteHistograms filled.
WriteTokens ==
    /\ wstate = "histograms"
    /\ codes # NoCodes
    /\ stream' = stream \o AllTokenItems(unit.context_map, unit.tokens)
    /\ wstate' = "tokens"
    /\ last' = [op |-> "WriteTokens", a |-> Len(unit.tokens), b |-> 0,
                arg |-> <<>>]
    /\ UNCHANGED <<unit, codes, histVars, builderVars, codeVars, toolVars, restVars>>

\* The units: tokens of two raw contexts, with no context map or with one
\* that maps them to the histograms.
RawContexts == {0, 1}
UnitMaps ==
    {[present |-> FALSE, map |-> <<>>]} \cup
    {[present |-> TRUE, map |-> mp] : mp \in {<<0, 0>>, <<0, 1>>, <<1, 0>>}}
UnitHistograms(context_map) ==
    IF context_map.present
    THEN 1 + Max(context_map.map[1], context_map.map[2])
    ELSE Cardinality(RawContexts)
UnitTokens ==
    UNION {[1..n -> [value : TokenValues, context : RawContexts]] :
              n \in 0..MaxTokens}

InitWriter ==
    /\ \E mp \in UnitMaps, ts \in UnitTokens, pf \in BOOLEAN :
          unit = [tokens |-> ts, context_map |-> mp,
                  num_histograms |-> UnitHistograms(mp),
                  use_prefix_code |-> pf]
    /\ codes = NoCodes
    /\ stream = <<>>
    /\ wstate = "open"
    /\ last = NoOp
    /\ IdleHist
    /\ IdleBuilder
    /\ IdleCode
    /\ IdleTool
    /\ IdleRest

NextWriter ==
    \/ WriteHistograms
    \/ WriteTokens

SpecWriter == InitWriter /\ [][NextWriter]_vars

---------------------------------------------------------------------------
(* Properties of the writer, checked under SpecWriter.                     *)

\* C8: in one stream every histogram description comes before the first
\* token code: the descriptions by rising collapsed context, then, once
\* they are complete, for each token in input order its entropy code
\* followed by its extra bits.
C8_HistogramsThenTokens ==
    LET n == unit.num_histograms
        IsTokenItem(i) == stream[i].kind \in {"code", "extra"}
    IN /\ \A i, j \in 1..Len(stream) :
             (i < j /\ IsTokenItem(i)) => IsTokenItem(j)
       /\ \A i \in 1..Len(stream) :
             stream[i].kind = "histogram" => stream[i].context = i - 1
       /\ (\E i \in 1..Len(stream) : IsTokenItem(i)) =>
             /\ Len(stream) >= n
             /\ stream[n].kind = "histogram"
             /\ codes # NoCodes
       /\ wstate = "tokens" =>
             /\ Len(stream) = n + 2 * Len(unit.tokens)
             /\ \A k \in 1..Len(unit.tokens) :
                   LET e == UintCoderEncode(unit.tokens[k].value)
                   IN /\ stream[n + 2 * k - 1].kind = "code"
                      /\ stream[n + 2 * k - 1].symbol = e.tok
                      /\ stream[n + 2 * k - 1].context =
                            CollapsedContext(unit.context_map, unit.tokens[k])
                      /\ stream[n + 2 * k].kind = "extra"
                      /\ stream[n + 2 * k].nbits = e.nbits
                      /\ stream[n + 2 * k].bits = e.bits

C8_Witness ==
    /\ wstate = "tokens"
    /\ unit.num_histograms = 2
    /\ Len(unit.tokens) = 2
    /\ unit.tokens[1].value = MaxValue
    /\ unit.tokens[2].value = 0
    /\ unit.tokens[1].context # unit.tokens[2].context
    /\ Len(stream) = 6

---------------------------------------------------------------------------
(* Token round trip. The encoder has no reader of its own stream: Decode   *)
(* is the inverse the stream's reader applies, rebuilt from the class and  *)
(* the raw bits.                                                           *)
MaxCoderValue == 80      \* every value up to here is tried
MaxExponent == 29        \* and the values around 2^n up to this n

UintCoderDecode(tok, bits) ==
    IF tok < kSplit
    THEN tok
    ELSE LET nbits == kSplitExponent - kMsbInToken
                      + ((tok - kSplit) \div 2 ^ kMsbInToken)
             low == (tok - kSplit) % 2 ^ kMsbInToken
         IN (2 ^ kMsbInToken + low) * 2 ^ nbits + bits

\* Values given to the coder: all the small ones and, for each exponent,
\* both sides of the power of two, of the next class boundary above it and
\* the last value of the exponent.
CoderValues ==
    (0 .. MaxCoderValue)
    \cup {2 ^ n + d : n \in kSplitExponent .. MaxExponent, d \in {-1, 0, 1}}
    \cup {2 ^ n + 2 ^ (n - kMsbInToken) + d :
              n \in kSplitExponent .. MaxExponent, d \in {-1, 0, 1}}
    \cup {2 ^ n + (2 ^ n - 1) : n \in kSplitExponent .. MaxExponent}

NotCoded == [tok |-> 0, nbits |-> 0, bits |-> 0]

Encode ==
    /\ coder.pc = "value"
    /\ coder' = [coder EXCEPT !.enc = UintCoderEncode(coder.value),
                              !.pc = "encoded"]
    /\ last' = [op |-> "Encode", a |-> 0, b |-> 0, arg |-> <<coder.value>>]
    /\ UNCHANGED <<histVars, builderVars, codeVars, toolVars, writerVars,
                   quantVars, mirrorVars, foldVars, imageVars>>

Decode ==
    /\ coder.pc = "encoded"
    /\ coder' = [coder EXCEPT
                   !.decoded = UintCoderDecode(coder.enc.tok, coder.enc.bits),
                   !.pc = "decoded"]
    /\ last' = [op |-> "Decode", a |-> 0, b |-> 0,
                arg |-> <<coder.enc.tok, coder.enc.bits>>]
    /\ UNCHANGED <<histVars, builderVars, codeVars, toolVars, writerVars,
                   quantVars, mirrorVars, foldVars, imageVars>>

InitToken ==
    /\ \E v \in CoderValues :
          coder = [value |-> v, enc |-> NotCoded, decoded |-> 0, pc |-> "value"]
    /\ last = NoOp
    /\ IdleHist /\ IdleBuilder /\ IdleCode /\ IdleTool /\ IdleWriter
    /\ IdleQuant /\ IdleMirror /\ IdleFold /\ IdleImage

NextToken == Encode \/ Decode

SpecToken == InitToken /\ [][NextToken]_vars

\* C11: decoding what Encode produced for a value gives the value back, and
\* no other value has the same (bucket, extra_bit_count, extra_bits).
C11_RoundTrip ==
    /\ coder.pc = "decoded" => coder.decoded = coder.value
    /\ coder.pc \in {"encoded", "decoded"} =>
          \A w \in CoderValues :
              w # coder.value => UintCoderEncode(w) # coder.enc

\* A value with raw bits has gone through Encode and Decode.
C11_Witness ==
    /\ coder.pc = "decoded"
    /\ coder.value = 2 ^ MaxExponent + 2 ^ (MaxExponent - kMsbInToken) + 1
    /\ coder.enc.nbits = MaxExponent - kMsbInToken
    /\ coder.enc.bits = 1

---------------------------------------------------------------------------
(* Adaptive Table Builder: the table behind ANSEncSymbolInfo. Raw counts   *)
(* are scaled to the precision with rounding, a live symbol is never left  *)
(* below 1, and the largest quantized frequency absorbs the drift of the   *)
(* sum. reverse_rank is filled slice by slice in symbol order.             *)
MaxTableLen == 3         \* symbols of a raw frequency table
MaxCount == 3            \* the largest raw count
MaxLogP == 3             \* the precision P is 2^1 .. 2^MaxLogP

\* count * P / total, rounded to the nearest integer; a live symbol gets at
\* least 1.
ScaledFrequencies(counts, P) ==
    LET total == SumSeq(counts)
    IN [s \in 1..Len(counts) |->
           IF counts[s] = 0 THEN 0
           ELSE Max(1, (2 * counts[s] * P + total) \div (2 * total))]

\* The symbol of the largest frequency, the first one among equals.
LargestSymbol(q) ==
    CHOOSE s \in 1..Len(q) :
        \A t \in 1..Len(q) : q[s] > q[t] \/ (q[s] = q[t] /\ s <= t)

\* As QuantizeFrequencies, without the correction of the sum.
QuantizeFrequencies_NoDrift(counts, P) == ScaledFrequencies(counts, P)

QuantizeFrequencies(counts, P) ==
    LET q == ScaledFrequencies(counts, P)
        l == LargestSymbol(q)
    IN [q EXCEPT ![l] = q[l] + (P - SumSeq(q))]

\* Where the slice of symbol s (1-based) starts: the sum of the
\* frequencies before it.
SliceStart(freq, s) == SumSeq(SubSeq(freq, 1, s - 1))

\* The symbols (0-based) whose slice holds rank r.
SliceOwners(freq, r) ==
    {s - 1 : s \in {t \in 1..Len(freq) :
                       /\ SliceStart(freq, t) <= r
                       /\ r < SliceStart(freq, t) + freq[t]}}

\* reverse_rank after the slices were written in symbol order: a later
\* symbol overwrites an earlier one, an unwritten rank stays -1.
ReverseRank(freq, P) ==
    [i \in 1..P |->
        LET owners == SliceOwners(freq, i - 1)
        IN IF owners = {} THEN -1
           ELSE CHOOSE s \in owners : \A t \in owners : t <= s]

BuildTable ==
    /\ quant.pc = "counts"
    /\ LET freq == QuantizeFrequencies(quant.counts, quant.P)
       IN quant' = [quant EXCEPT !.freq = freq,
                                 !.reverse_rank = ReverseRank(freq, quant.P),
                                 !.pc = "built"]
    /\ last' = [op |-> "BuildTable", a |-> 0, b |-> 0, arg |-> quant.counts]
    /\ UNCHANGED <<histVars, builderVars, codeVars, toolVars, writerVars,
                   coderVars, mirrorVars, foldVars, imageVars>>

\* Raw tables with at least one observed symbol.
RawTables ==
    {c \in UNION {[1..n -> 0..MaxCount] : n \in 1..MaxTableLen} :
        SumSeq(c) > 0}

InitQuant ==
    /\ \E c \in RawTables : \E k \in 1..MaxLogP :
          quant = [counts |-> c, P |-> 2 ^ k, freq |-> <<>>,
                   reverse_rank |-> <<>>, pc |-> "counts"]
    /\ last = NoOp
    /\ IdleHist /\ IdleBuilder /\ IdleCode /\ IdleTool /\ IdleWriter
    /\ IdleCoder /\ IdleMirror /\ IdleFold /\ IdleImage

NextQuant == BuildTable

SpecQuant == InitQuant /\ [][NextQuant]_vars

LiveSymbols(counts) == {s \in 1..Len(counts) : counts[s] > 0}

TableValid ==
    /\ SumSeq(quant.freq) = quant.P
    /\ \A s \in LiveSymbols(quant.counts) : quant.freq[s] >= 1
    /\ \A r \in 0..(quant.P - 1) :
          /\ Cardinality(SliceOwners(quant.freq, r)) = 1
          /\ SliceOwners(quant.freq, r) = {quant.reverse_rank[r + 1]}

---------------------------------------------------------------------------
(* Mirror of encoder/image_ops.h, one loop iteration per step. The         *)
(* coordinates tried stay far from the ends of int64_t, so no              *)
(* intermediate value overflows.                                           *)
MaxSize == 3             \* xsize is 1..MaxSize
MaxRadius == 6           \* x starts at most this far outside [0, xsize)

\* As MirrorBody, reflecting about the last column instead of past it.
MirrorBody_NoBorder(x, xsize) ==
    IF x < 0 THEN -x - 1 ELSE 2 * xsize - x

\* The body of the while loop.
MirrorBody(x, xsize) ==
    IF x < 0 THEN -x - 1 ELSE 2 * xsize - 1 - x

\* The condition of the while loop.
MirrorOutside(x, xsize) == x < 0 \/ x >= xsize

\* mirror.prev is x before the last iteration; mirror.iters counts the
\* iterations up to two.
MirrorIterate ==
    /\ mirror.pc = "loop"
    /\ MirrorOutside(mirror.x, mirror.xsize)
    /\ mirror' = [mirror EXCEPT !.x = MirrorBody(mirror.x, mirror.xsize),
                                !.prev = mirror.x,
                                !.iters = IF mirror.iters < 2
                                          THEN mirror.iters + 1 ELSE 2]
    /\ last' = [op |-> "MirrorIterate", a |-> 0, b |-> 0, arg |-> <<mirror.x>>]
    /\ UNCHANGED <<histVars, builderVars, codeVars, toolVars, writerVars,
                   coderVars, quantVars, foldVars, imageVars>>

MirrorReturn ==
    /\ mirror.pc = "loop"
    /\ ~MirrorOutside(mirror.x, mirror.xsize)
    /\ mirror' = [mirror EXCEPT !.pc = "done"]
    /\ last' = [op |-> "MirrorReturn", a |-> 0, b |-> 0, arg |-> <<mirror.x>>]
    /\ UNCHANGED <<histVars, builderVars, codeVars, toolVars, writerVars,
                   coderVars, quantVars, foldVars, imageVars>>

InitMirror ==
    /\ \E xsize \in 1..MaxSize : \E x \in (-MaxRadius)..(MaxSize + MaxRadius) :
          mirror = [x0 |-> x, xsize |-> xsize, x |-> x, prev |-> x,
                    iters |-> 0, pc |-> "loop"]
    /\ last = NoOp
    /\ IdleHist /\ IdleBuilder /\ IdleCode /\ IdleTool /\ IdleWriter
    /\ IdleCoder /\ IdleQuant /\ IdleFold /\ IdleImage

NextMirror == MirrorIterate \/ MirrorReturn

SpecMirror == InitMirror /\ [][NextMirror]_vars

\* The thread that called Mirror keeps running it.
SpecMirrorFair == SpecMirror /\ WF_vars(NextMirror)

\* C13: Mirror returns a coordinate of the image; one inside is returned
\* as it is, one up to xsize outside is reflected with the border pixel
\* replicated.
C13_MirrorResult ==
    mirror.pc = "done" =>
        /\ 0 <= mirror.x /\ mirror.x < mirror.xsize
        /\ (0 <= mirror.x0 /\ mirror.x0 < mirror.xsize) =>
              (mirror.x = mirror.x0 /\ mirror.iters = 0)
        /\ (-mirror.xsize <= mirror.x0 /\ mirror.x0 < 0) =>
              mirror.x = -mirror.x0 - 1
        /\ (mirror.xsize <= mirror.x0 /\ mirror.x0 < 2 * mirror.xsize) =>
              mirror.x = 2 * mirror.xsize - 1 - mirror.x0

\* A coordinate left of the image came back reflected.
C13_Witness ==
    /\ mirror.pc = "done"
    /\ mirror.xsize = MaxSize
    /\ mirror.x0 = -2
    /\ mirror.x = 1

---------------------------------------------------------------------------
(* ExtendPrefixCode: the calls that return false.                          *)

\* The sum of the weights 2^(kTreeLimit - depth) of a code's symbols.
WeightSum(depths) ==
    SumSeq([i \in 1..Len(depths) |-> 2 ^ (kTreeLimit - depths[i])])

\* C14: a call of ExtendPrefixCode on a code whose bits and depths differ
\* in length, or whose weights do not sum to 2^15, returns false and
\* leaves depths and bits as they were.
C14_RejectLeavesCode ==
    [][(/\ last'.op = "ExtendPrefixCode"
        /\ last.op # "ExtendPrefixCode"
        /\ \/ Len(prefix_code.bits) # Len(prefix_code.depths)
           \/ WeightSum(prefix_code.depths) # 2 ^ kTreeLimit)
       => (last'.b = 0 /\ prefix_code' = prefix_code)]_vars

\* An incomplete code of three symbols was refused and is unchanged.
C14_Witness ==
    /\ last.op = "ExtendPrefixCode"
    /\ last.b = 0
    /\ last.arg = <<4>>
    /\ prefix_code.depths = <<2, 2, 2>>
    /\ Len(prefix_code.bits) = 3

---------------------------------------------------------------------------
(* Partial histograms and their combiner. The same bucket additions run    *)
(* twice side by side: split among the partial histograms, which a single  *)
(* combiner then folds into "merged" with AddHistogram in any order, and   *)
(* all into the one histogram "single".                                    *)
Parts == {"p1", "p2", "p3"}
MaxAdds == 3             \* bucket additions of one run

\* One bucket addition: Add on the partial it was dealt to, and Add on the
\* single histogram.
AddSplit(p, symbol) ==
    /\ fold.merged = {}
    /\ fold.adds < MaxAdds
    /\ hist' = [hist EXCEPT ![p] = HistAdd(hist[p], symbol),
                            !["single"] = HistAdd(hist["single"], symbol)]
    /\ fold' = [fold EXCEPT !.adds = fold.adds + 1]
    /\ last' = [op |-> "AddSplit", a |-> p, b |-> 0, arg |-> <<symbol>>]
    /\ UNCHANGED <<builderVars, codeVars, toolVars, writerVars,
                   coderVars, quantVars, mirrorVars, imageVars>>

\* The combiner takes over partial p and folds it in; no partial is folded
\* twice and none is added to after the hand-off.
Merge(p) ==
    /\ p \notin fold.merged
    /\ hist' = [hist EXCEPT
                  !["merged"] = HistAddHistogram(hist["merged"], hist[p])]
    /\ fold' = [fold EXCEPT !.merged = fold.merged \cup {p}]
    /\ last' = [op |-> "Merge", a |-> "merged", b |-> p, arg |-> <<>>]
    /\ UNCHANGED <<builderVars, codeVars, toolVars, writerVars,
                   coderVars, quantVars, mirrorVars, imageVars>>

InitMerge ==
    /\ hist = [h \in Parts \cup {"single", "merged"} |-> NewHistogram]
    /\ fold = [adds |-> 0, merged |-> {}, pc |-> "fold"]
    /\ last = NoOp
    /\ IdleBuilder /\ IdleCode /\ IdleTool /\ IdleWriter
    /\ IdleCoder /\ IdleQuant /\ IdleMirror /\ IdleImage

NextMerge ==
    \/ \E p \in Parts, symbol \in Symbols : AddSplit(p, symbol)
    \/ \E p \in Parts : Merge(p)

SpecMerge == InitMerge /\ [][NextMerge]_vars

\* C15: once every partial histogram is merged, the combined histogram has
\* the data_, length included, and the total_count_ of the histogram that
\* took all the additions itself.
C15_MergeEqualsSingle ==
    fold.merged = Parts => hist["merged"] = hist["single"]

\* Three additions went to partials of different lengths, one stayed
\* empty, and all were merged.
C15_Witness ==
    /\ fold.merged = Parts
    /\ hist["single"].total_count_ = MaxAdds
    /\ Len(hist["p1"].data_) = kRounding
    /\ Len(hist["p2"].data_) = 0
    /\ Len(hist["p3"].data_) = 2 * kRounding
    /\ Len(hist["merged"].data_) = 2 * kRounding
    /\ last.b = "p1"

---------------------------------------------------------------------------
(* HistogramBuilder: what a run of accepted tokens leaves behind.          *)

\* The sum of total_count_ over a vector of histograms.
SumTotals(hs) == SumSeq([i \in 1..Len(hs) |-> hs[i].total_count_])

\* C18: while the builder runs, the totals of its histograms add up to the
\* number of tokens it has accepted, and it has as many histograms as
\* before the token, so as many as it was constructed with.
C18_TotalsCountTokens ==
    [][status' = "ok" =>
          /\ SumTotals(histograms') = accepted'
          /\ Len(histograms') = Len(histograms)]_vars

\* Two tokens of different contexts were accepted by a builder of two
\* histograms without a context map.
C18_Witness ==
    /\ status = "ok"
    /\ accepted = MaxTokens
    /\ ~static_context_map.present
    /\ Len(histograms) = 2
    /\ histograms[1].total_count_ = 1
    /\ histograms[2].total_count_ = MaxTokens - 1
    /\ Len(histograms[2].data_) = 3 * kRounding

---------------------------------------------------------------------------
(* class AcStrategy. An object is [strategy_, is_first_]; the raw          *)
(* strategy types are the numbers 0 .. kNumValidStrategies - 1.            *)
DCT == 0
IDENTITY == 1
DCT2X2 == 2
DCT4X4 == 3
DCT16X16 == 4
DCT32X32 == 5
DCT16X8 == 6
DCT8X16 == 7
DCT32X8 == 8
DCT8X32 == 9
DCT32X16 == 10
DCT16X32 == 11
DCT4X8 == 12
DCT8X4 == 13
AFV0 == 14
AFV1 == 15
AFV2 == 16
AFV3 == 17
kNumValidStrategies == 18
kMaxCoeffBlocks == 4
kDCTBlockSize == 64

Types == 0 .. (kNumValidStrategies - 1)

TypeBit(type) == 2 ^ type

\* bit n of the mask bits
BitSet(bits, n) == (bits \div 2 ^ n) % 2 = 1

IsMultiblock(a) ==
    LET bits == TypeBit(DCT16X16) + TypeBit(DCT32X32) + TypeBit(DCT16X8)
                + TypeBit(DCT8X16) + TypeBit(DCT32X8) + TypeBit(DCT8X32)
                + TypeBit(DCT16X32) + TypeBit(DCT32X16)
    IN BitSet(bits, a.strategy_)

RawStrategy(a) == a.strategy_
Strategy(a) == a.strategy_
IsFirstBlock(a) == a.is_first_

IsRawStrategyValid(raw_strategy) == raw_strategy < kNumValidStrategies

\* The private constructor; its JXL_DASSERT is AcStrategyAssertion.
AcStrategy(strategy, is_first) ==
    [strategy_ |-> strategy, is_first_ |-> is_first]

AcStrategyAssertion(a) == IsMultiblock(a) \/ a.is_first_ = TRUE

FromRawStrategy(raw_strategy) == AcStrategy(raw_strategy, TRUE)

\* covered_blocks_x with the entries of DCT16X8 and DCT8X16 exchanged.
covered_blocks_x_Swapped(a) ==
    LET kLut == <<1, 1, 1, 1, 2, 4, 2, 1, 1, 4, 2, 4, 1, 1, 1, 1, 1, 1>>
    IN kLut[a.strategy_ + 1]

covered_blocks_x(a) ==
    LET kLut == <<1, 1, 1, 1, 2, 4, 1, 2, 1, 4, 2, 4, 1, 1, 1, 1, 1, 1>>
    IN kLut[a.strategy_ + 1]

covered_blocks_y(a) ==
    LET kLut == <<1, 1, 1, 1, 2, 4, 2, 1, 4, 1, 4, 2, 1, 1, 1, 1, 1, 1>>
    IN kLut[a.strategy_ + 1]

log2_covered_blocks(a) ==
    LET kLut == <<0, 0, 0, 0, 2, 4, 1, 1, 2, 2, 3, 3, 0, 0, 0, 0, 0, 0>>
    IN kLut[a.strategy_ + 1]

\* CoeffOrderAndLut::kOffset, in units of kDCTBlockSize
kOffset ==
    <<0, 1, 2, 3, 4, 8, 24, 26, 28, 32, 36, 44, 52, 53, 54, 55, 56, 57, 58>>

\* NaturalCoeffOrder(): where the strategy's coefficient order starts in
\* CoeffOrderAndLut::order.
NaturalCoeffOrder(a) == kOffset[RawStrategy(a) + 1] * kDCTBlockSize

\* The coefficients of a strategy: kDCTBlockSize for each covered block.
NumCoefficients(a) ==
    covered_blocks_x(a) * covered_blocks_y(a) * kDCTBlockSize

NoCoeff == -1

\* An AcStrategy is made from a raw type.
MakeStrategy(raw_strategy) ==
    /\ acs.pc = "idle"
    /\ IsRawStrategyValid(raw_strategy)
    /\ acs' = [obj |-> FromRawStrategy(raw_strategy), coeff |-> NoCoeff,
               pc |-> "made"]
    /\ last' = [op |-> "FromRawStrategy", a |-> 0, b |-> 0,
                arg |-> <<raw_strategy>>]
    /\ UNCHANGED <<histVars, builderVars, codeVars, toolVars, writerVars,
                   coderVars, quantVars, mirrorVars, foldVars, image>>

\* Entry i of the strategy's coefficient order is read: acs.coeff is its
\* place in CoeffOrderAndLut::order.
ReadCoeffOrder(i) ==
    /\ acs.pc = "made"
    /\ i < NumCoefficients(acs.obj)
    /\ acs' = [acs EXCEPT !.coeff = NaturalCoeffOrder(acs.obj) + i,
                          !.pc = "read"]
    /\ last' = [op |-> "NaturalCoeffOrder", a |-> 0, b |-> 0, arg |-> <<i>>]
    /\ UNCHANGED <<histVars, builderVars, codeVars, toolVars, writerVars,
                   coderVars, quantVars, mirrorVars, foldVars, image>>

InitStrategy ==
    /\ acs = [pc |-> "idle"]
    /\ image = [xsize |-> 0, ysize |-> 0, stride_ |-> 0, row_ |-> <<>>]
    /\ last = NoOp
    /\ IdleHist /\ IdleBuilder /\ IdleCode /\ IdleTool /\ IdleWriter
    /\ IdleCoder /\ IdleQuant /\ IdleMirror /\ IdleFold

NextStrategy ==
    \/ \E raw \in Types : MakeStrategy(raw)
    \/ \E i \in 0 .. (kMaxCoeffBlocks * kMaxCoeffBlocks * kDCTBlockSize - 1) :
          ReadCoeffOrder(i)

SpecStrategy == InitStrategy /\ [][NextStrategy]_vars

\* The slice of CoeffOrderAndLut::order that kOffset gives a type.
OrderSlice(t) ==
    (kOffset[t + 1] * kDCTBlockSize) .. (kOffset[t + 2] * kDCTBlockSize - 1)

\* C20: for the strategy at hand, with n the product of its covered
\* blocks, IsMultiblock says n > 1, log2_covered_blocks is the logarithm of
\* n, kOffset leaves the type n blocks, and a coefficient read through the
\* strategy lies in its own slice and in no other type's.
C20_TablesAgree ==
    acs.pc # "idle" =>
        LET a == acs.obj
            t == Strategy(a)
            n == covered_blocks_x(a) * covered_blocks_y(a)
        IN /\ IsMultiblock(a) <=> n > 1
           /\ 2 ^ log2_covered_blocks(a) = n
           /\ kOffset[t + 2] - kOffset[t + 1] = n
           /\ acs.pc = "read" =>
                 /\ acs.coeff \in OrderSlice(t)
                 /\ \A u \in Types \ {t} : acs.coeff \notin OrderSlice(u)

\* The last coefficient of a DCT32X16 was read.
C20_Witness ==
    /\ acs.pc = "read"
    /\ Strategy(acs.obj) = DCT32X16
    /\ IsMultiblock(acs.obj)
    /\ acs.coeff = kOffset[DCT16X32 + 1] * kDCTBlockSize - 1

---------------------------------------------------------------------------
(* class AcStrategyImage and AcStrategyRow. row_ is the memory of layers_, *)
(* stride_ cells per row; cell (x, y) is row_[y * stride_ + x].            *)
INVALID == 255
MaxCalls == 2            \* calls of SetNoBoundsCheck on one image

\* (static_cast<uint8_t>(type) << 1) | first, stored in a uint8_t
CellValue(type, first) == (type * 2 + (IF first THEN 1 ELSE 0)) % (INVALID + 1)

\* The loops of SetNoBoundsCheck from covered cell k on, in the order
\* iy, ix; cbx and n are covered_blocks_x and the number of covered cells.
\* Here only the top-left cell is looked at before writing.
RECURSIVE SetCells_CheckFirstOnly(_, _, _, _, _, _, _, _, _)
SetCells_CheckFirstOnly(row, k, x, y, type, check, stride, cbx, n) ==
    IF k = n THEN [ret |-> TRUE, row_ |-> row]
    ELSE LET iy == k \div cbx
             ix == k % cbx
             pos == (y + iy) * stride + x + ix
         IN IF check /\ k = 0 /\ row[pos + 1] # INVALID
            THEN [ret |-> FALSE, row_ |-> row]
            ELSE SetCells_CheckFirstOnly(
                     [row EXCEPT ![pos + 1] = CellValue(type, iy = 0 /\ ix = 0)],
                     k + 1, x, y, type, check, stride, cbx, n)

\* Here every cell of the top row and of the left column is marked first.
RECURSIVE SetCells_FirstRowAndColumn(_, _, _, _, _, _, _, _, _)
SetCells_FirstRowAndColumn(row, k, x, y, type, check, stride, cbx, n) ==
    IF k = n THEN [ret |-> TRUE, row_ |-> row]
    ELSE LET iy == k \div cbx
             ix == k % cbx
             pos == (y + iy) * stride + x + ix
         IN IF check /\ row[pos + 1] # INVALID
            THEN [ret |-> FALSE, row_ |-> row]
            ELSE SetCells_FirstRowAndColumn(
                     [row EXCEPT ![pos + 1] = CellValue(type, iy = 0 \/ ix = 0)],
                     k + 1, x, y, type, check, stride, cbx, n)

RECURSIVE SetCells(_, _, _, _, _, _, _, _, _)
SetCells(row, k, x, y, type, check, stride, cbx, n) ==
    IF k = n THEN [ret |-> TRUE, row_ |-> row]
    ELSE LET iy == k \div cbx
             ix == k % cbx
             pos == (y + iy) * stride + x + ix
         IN IF check /\ row[pos + 1] # INVALID
            THEN [ret |-> FALSE, row_ |-> row]
            ELSE SetCells([row EXCEPT ![pos + 1] =
                                  CellValue(type, iy = 0 /\ ix = 0)],
                          k + 1, x, y, type, check, stride, cbx, n)

\* Status SetNoBoundsCheck(size_t x, size_t y, AcStrategy::Type type,
\*                         bool check = true)
SetNoBoundsCheck(img, x, y, type, check) ==
    LET a == FromRawStrategy(type)
    IN SetCells(img.row_, 0, x, y, type, check, img.stride_,
                covered_blocks_x(a), covered_blocks_x(a) * covered_blocks_y(a))

\* AcStrategyRow::operator[] on ConstRow(y): the object made from the cell.
AcStrategyRowAt(img, x, y) ==
    LET v == img.row_[y * img.stride_ + x + 1]
    IN AcStrategy(v \div 2, v % 2 = 1)

\* bool IsValid(size_t x, size_t y)
IsValid(img, x, y) == img.row_[y * img.stride_ + x + 1] # INVALID

\* A call with check = true whose blocks lie inside the image, which is
\* what the callers of SetNoBoundsCheck see to.
CallSetNoBoundsCheck(x, y, type) ==
    /\ image.calls < MaxCalls
    /\ x + covered_blocks_x(FromRawStrategy(type)) <= image.xsize
    /\ y + covered_blocks_y(FromRawStrategy(type)) <= image.ysize
    /\ LET r == SetNoBoundsCheck(image, x, y, type, TRUE)
       IN /\ image' = [image EXCEPT !.row_ = r.row_, !.calls = image.calls + 1]
          /\ last' = [op |-> "SetNoBoundsCheck", a |-> IF r.ret THEN 1 ELSE 0,
                      b |-> 0, arg |-> <<x, y, type>>]
    /\ UNCHANGED <<histVars, builderVars, codeVars, toolVars, writerVars,
                   coderVars, quantVars, mirrorVars, foldVars, acs>>

\* AcStrategyImage(xsize, ysize) for the smallest image every strategy
\* fits in, its rows padded by one cell, then FillInvalid().
InitImage ==
    /\ image = [xsize |-> kMaxCoeffBlocks, ysize |-> kMaxCoeffBlocks,
                stride_ |-> kMaxCoeffBlocks + 1,
                row_ |-> [i \in 1..((kMaxCoeffBlocks + 1) * kMaxCoeffBlocks)
                             |-> INVALID],
                calls |-> 0]
    /\ acs = [pc |-> "idle"]
    /\ last = NoOp
    /\ IdleHist /\ IdleBuilder /\ IdleCode /\ IdleTool /\ IdleWriter
    /\ IdleCoder /\ IdleQuant /\ IdleMirror /\ IdleFold

\* The types given to the calls after the first: every multi-block type
\* and one type of a single block.
LaterTypes ==
    {DCT, DCT16X16, DCT32X32, DCT16X8, DCT8X16, DCT32X8, DCT8X32,
     DCT32X16, DCT16X32}

NextImage ==
    \E x \in 0 .. (kMaxCoeffBlocks - 1), y \in 0 .. (kMaxCoeffBlocks - 1),
       type \in (IF image.calls = 0 THEN Types ELSE LaterTypes) :
          CallSetNoBoundsCheck(x, y, type)

SpecImage == InitImage /\ [][NextImage]_vars

\* The cells (ix, iy) a strategy type covers.
CoveredCells(type) ==
    LET a == FromRawStrategy(type)
    IN (0 .. (covered_blocks_x(a) - 1)) \X (0 .. (covered_blocks_y(a) - 1))

\* C17: a call of SetNoBoundsCheck with check = true changes no cell that
\* held a value other than INVALID, and a call that covers such a cell
\* fails.
C17_ValidCellsKept ==
    [][last'.op = "SetNoBoundsCheck" =>
          /\ \A pos \in 1..Len(image.row_) :
                image.row_[pos] # INVALID => image'.row_[pos] = image.row_[pos]
          /\ (\E c \in CoveredCells(last'.arg[3]) :
                 IsValid(image, last'.arg[1] + c[1], last'.arg[2] + c[2]))
             => last'.a = 0]_vars

\* A DCT8X16 was laid over a block set before, right of its first cell:
\* the call wrote its first cell, failed at the second and left it.
C17_Witness ==
    /\ last.op = "SetNoBoundsCheck"
    /\ last.a = 0
    /\ last.arg = <<0, 0, DCT8X16>>
    /\ image.calls = 2
    /\ AcStrategyRowAt(image, 0, 0) = AcStrategy(DCT8X16, TRUE)
    /\ AcStrategyRowAt(image, 1, 0) = AcStrategy(AFV3, TRUE)

\* C19: after a successful SetNoBoundsCheck(x, y, type), each covered
\* cell read through AcStrategyRow gives the type, is the first block only
\* at (x, y), and passes the constructor's assertion.
C19_ReadBackAfterSet ==
    (last.op = "SetNoBoundsCheck" /\ last.a = 1) =>
        \A c \in CoveredCells(last.arg[3]) :
            LET a == AcStrategyRowAt(image, last.arg[1] + c[1],
                                     last.arg[2] + c[2])
            IN /\ Strategy(a) = last.arg[3]
               /\ IsFirstBlock(a) <=> (c[1] = 0 /\ c[2] = 0)
               /\ AcStrategyAssertion(a)

\* A DCT32X16 was set next to an earlier block.
C19_Witness ==
    /\ last.op = "SetNoBoundsCheck"
    /\ last.a = 1
    /\ last.arg = <<2, 0, DCT32X16>>
    /\ image.calls = 2
    /\ IsValid(image, 0, 0)
    /\ AcStrategyRowAt(image, 3, 3) = AcStrategy(DCT32X16, FALSE)
    /\ AcStrategyRowAt(image, 2, 0) = AcStrategy(DCT32X16, TRUE)

====
